---- MODULE Spec2Model ----
(***************************************************************************)
(* Model of arti-bitchat/src/lib.rs: the FFI lifecycle controller around   *)
(* an Arti client (arti_start, arti_stop, arti_go_dormant, arti_wake,      *)
(* arti_bootstrap_summary, the status queries) and the Supervisor task     *)
(* spawned by arti_start (the closure around run_arti).                    *)
(*                                                                         *)
(* Caller threads and Supervisor tasks run concurrently (the tokio runtime *)
(* is multi-threaded), so every access to a shared object (the atomics     *)
(* IS_RUNNING and BOOTSTRAP_PROGRESS, the BOOTSTRAP_SUMMARY mutex, the     *)
(* ARTI_STATE mutex, the oneshot channel) is a step of its own, except     *)
(* that steps which only touch objects protected by a mutex the stepper    *)
(* holds, or only thread-local data, are joined to a neighbouring step.    *)
(***************************************************************************)
EXTENDS Integers, Sequences, FiniteSets, TLC

(* ---------------------------------------------------------------------- *)
(* Bounds                                                                  *)
(* ---------------------------------------------------------------------- *)

\* number of Supervisor tasks that may be spawned in one behaviour
MaxTasks == 2

\* largest buffer capacity passed to arti_bootstrap_summary
MaxCap == 7

\* the caller threads of the host application
Threads == {"t1", "t2"}

Tasks == 1..MaxTasks

(* ---------------------------------------------------------------------- *)
(* Summary texts, as sequences of bytes (one-character strings)            *)
(* ---------------------------------------------------------------------- *)

Empty == << >>

Starting == <<"S","t","a","r","t","i","n","g",".",".",".">>

Configuring == <<"C","o","n","f","i","g","u","r","i","n","g",".",".",".">>

Bootstrapping == <<"B","o","o","t","s","t","r","a","p","p","i","n","g",".",".",".">>

Ready == <<"R","e","a","d","y">>

ShuttingDown == <<"S","h","u","t","t","i","n","g"," ","d","o","w","n",".",".",".">>

Dormant == <<"D","o","r","m","a","n","t">>

Active == <<"A","c","t","i","v","e">>

\* the phases of run_arti that can fail with `?`
ErrKinds == {"dir", "config", "bootstrap", "bind"}

\* format!("Error: {}", e): the prefix followed by the error's own text,
\* which the model abbreviates to one byte per failing phase
ErrorSummary(e) ==
    <<"E","r","r","o","r",":"," ">> \o
    << CASE e = "dir" -> "d" [] e = "config" -> "c"
         [] e = "bootstrap" -> "b" [] OTHER -> "l" >>

Summaries ==
    {Empty, Starting, Configuring, Bootstrapping, Ready, ShuttingDown,
     Dormant, Active} \cup {ErrorSummary(e) : e \in ErrKinds}

\* the terminator byte and the filler of a caller's untouched buffer
NUL == "\\0"

Filler == "#"

(* ---------------------------------------------------------------------- *)
(* State                                                                   *)
(* ---------------------------------------------------------------------- *)

VARIABLES
    IS_RUNNING,          \* static AtomicBool
    BOOTSTRAP_PROGRESS,  \* static AtomicI32
    BOOTSTRAP_SUMMARY,   \* static Mutex<String>
    stateInit,           \* ARTI_STATE (OnceCell) has been initialised
    shutdown_tx,         \* ArtiState.shutdown_tx: 0 = None, i = sender of channel i
    client,              \* ArtiState.client: 0 = None, i = client made by task i
    lock,                \* holder of the ARTI_STATE mutex: "free" or a thread
    thr,                 \* thr[t]: position of caller thread t in its call
    lastRet,             \* the call that returned in the last step, and its value
    task,                \* task[i]: position of Supervisor task i
    fired,               \* fired[i]: number of send() calls on channel i
    txDropped,           \* txDropped[i]: sender of channel i dropped unsent
    cycle,               \* history: "started" / "stopped" / "none"
    sumCall              \* the last arti_bootstrap_summary call and its buffer

vars == <<IS_RUNNING, BOOTSTRAP_PROGRESS, BOOTSTRAP_SUMMARY, stateInit,
          shutdown_tx, client, lock, thr, lastRet, task, fired, txDropped,
          cycle, sumCall>>

status == <<IS_RUNNING, BOOTSTRAP_PROGRESS, BOOTSTRAP_SUMMARY>>

owner == <<stateInit, shutdown_tx, client>>

channels == <<fired, txDropped>>

NoRet == [op |-> "none", code |-> 0]

NoCall == [called |-> FALSE, null |-> FALSE, len |-> 0, snap |-> Empty,
           ret |-> 0, buf |-> << >>]

Init ==
    /\ IS_RUNNING = FALSE
    /\ BOOTSTRAP_PROGRESS = 0
    /\ BOOTSTRAP_SUMMARY = Empty
    /\ stateInit = FALSE
    /\ shutdown_tx = 0
    /\ client = 0
    /\ lock = "free"
    /\ thr = [t \in Threads |-> "idle"]
    /\ lastRet = NoRet
    /\ task = [i \in Tasks |-> "unspawned"]
    /\ fired = [i \in Tasks |-> 0]
    /\ txDropped = [i \in Tasks |-> FALSE]
    /\ cycle = "none"
    /\ sumCall = NoCall

(* ---------------------------------------------------------------------- *)
(* Helpers                                                                 *)
(* ---------------------------------------------------------------------- *)

\* the Supervisor tasks spawned so far, and those not yet finished
Spawned == {i \in Tasks : task[i] # "unspawned"}

Alive == {i \in Tasks : task[i] \notin {"unspawned", "done"}}

ntasks == Cardinality(Spawned)

\* fn update_summary(s): lock BOOTSTRAP_SUMMARY, clear, push_str(s), unlock
update_summary(s) == BOOTSTRAP_SUMMARY' = s

\* a call of thread t returns: the thread is idle again
Return(t, op, code) ==
    /\ thr' = [thr EXCEPT ![t] = "idle"]
    /\ lastRet' = [op |-> op, code |-> code]

\* a call of thread t moves on to position pc
Goto(t, pc) ==
    /\ thr' = [thr EXCEPT ![t] = pc]
    /\ lastRet' = NoRet

\* Supervisor task i moves on to position pc
SetTask(i, pc) == task' = [task EXCEPT ![i] = pc]

\* RxResolved for a receiver that only notices the drop of its sender
RxResolved_droponly(i) == txDropped[i]

\* oneshot::Receiver resolves (with Ok or with RecvError) once the sender
\* has sent or has been dropped
RxResolved(i) == fired[i] > 0 \/ txDropped[i]

\* pub extern "C" fn arti_is_running()
arti_is_running == IF IS_RUNNING THEN 1 ELSE 0

\* pub extern "C" fn arti_bootstrap_progress()
arti_bootstrap_progress == BOOTSTRAP_PROGRESS

(* ---------------------------------------------------------------------- *)
(* arti_start                                                              *)
(* ---------------------------------------------------------------------- *)

\* arti_start_enter without the IS_RUNNING check of lines 64-66
arti_start_enter_nocheck(t, pathOk, rtOk) ==
    /\ thr[t] = "idle"
    /\ IF ~pathOk
       THEN /\ Return(t, "start", -2)
            /\ cycle' = "none"
            /\ UNCHANGED <<status, owner, lock, task, channels, sumCall>>
       ELSE IF ~stateInit /\ ~rtOk
       THEN /\ Return(t, "start", -3)
            /\ cycle' = "none"
            /\ UNCHANGED <<status, owner, lock, task, channels, sumCall>>
       ELSE /\ ntasks + Cardinality({u \in Threads : thr[u] = "start_lock"})
                 < MaxTasks
            /\ stateInit' = TRUE
            /\ Goto(t, "start_lock")
            /\ cycle' = "none"
            /\ UNCHANGED <<status, shutdown_tx, client, lock, task,
                           channels, sumCall>>

\* lines 63-82: the IS_RUNNING check, the data_dir parse and init_state().
\* pathOk: data_dir is valid UTF-8; rtOk: Runtime::new() succeeds.
arti_start_enter(t, pathOk, rtOk) ==
    /\ thr[t] = "idle"
    /\ IF IS_RUNNING
       THEN /\ Return(t, "start", -1)
            /\ UNCHANGED <<status, owner, lock, task, channels, cycle, sumCall>>
       ELSE IF ~pathOk
       THEN /\ Return(t, "start", -2)
            /\ cycle' = "none"
            /\ UNCHANGED <<status, owner, lock, task, channels, sumCall>>
       ELSE IF ~stateInit /\ ~rtOk
       THEN /\ Return(t, "start", -3)
            /\ cycle' = "none"
            /\ UNCHANGED <<status, owner, lock, task, channels, sumCall>>
       ELSE /\ ntasks + Cardinality({u \in Threads : thr[u] = "start_lock"})
                 < MaxTasks
            /\ stateInit' = TRUE
            /\ Goto(t, "start_lock")
            /\ cycle' = "none"
            /\ UNCHANGED <<status, shutdown_tx, client, lock, task,
                           channels, sumCall>>

\* arti_start_spawn with the sender stored before kept alive, not dropped
arti_start_spawn_nodrop(t) ==
    /\ thr[t] = "start_lock"
    /\ lock = "free"
    /\ lock' = t
    /\ shutdown_tx' = ntasks + 1
    /\ SetTask(ntasks + 1, "start")
    /\ Goto(t, "start_running")
    /\ cycle' = "none"
    /\ UNCHANGED <<status, stateInit, client, fired, txDropped, sumCall>>

\* lines 84-111: state.lock(), the oneshot channel, the store of its sender
\* (which drops the sender stored before) and runtime.spawn of the task
\* that holds the receiver.  The guard lives until the function returns.
arti_start_spawn(t) ==
    /\ thr[t] = "start_lock"
    /\ lock = "free"
    /\ lock' = t
    /\ LET n == ntasks + 1 IN
         /\ txDropped' = IF shutdown_tx # 0
                         THEN [txDropped EXCEPT ![shutdown_tx] = TRUE]
                         ELSE txDropped
         /\ shutdown_tx' = n
         /\ SetTask(n, "start")
    /\ Goto(t, "start_running")
    /\ cycle' = "none"
    /\ UNCHANGED <<status, stateInit, client, fired, sumCall>>

\* line 113: IS_RUNNING.store(true)
arti_start_set_running(t) ==
    /\ thr[t] = "start_running"
    /\ IS_RUNNING' = TRUE
    /\ Goto(t, "start_progress")
    /\ cycle' = "none"
    /\ UNCHANGED <<BOOTSTRAP_PROGRESS, BOOTSTRAP_SUMMARY, owner, lock, task, channels, sumCall>>

\* line 114: BOOTSTRAP_PROGRESS.store(0)
arti_start_set_progress(t) ==
    /\ thr[t] = "start_progress"
    /\ BOOTSTRAP_PROGRESS' = 0
    /\ Goto(t, "start_summary")
    /\ cycle' = "none"
    /\ UNCHANGED <<IS_RUNNING, BOOTSTRAP_SUMMARY, owner, lock, task,
                   channels, sumCall>>

\* lines 115-118: update_summary("Starting..."), return 0 (guard dropped)
arti_start_finish(t) ==
    /\ thr[t] = "start_summary"
    /\ lock = t
    /\ update_summary(Starting)
    /\ lock' = "free"
    /\ Return(t, "start", 0)
    /\ cycle' = "started"
    /\ UNCHANGED <<IS_RUNNING, BOOTSTRAP_PROGRESS, owner, task, channels,
                   sumCall>>

(* ---------------------------------------------------------------------- *)
(* arti_stop                                                               *)
(* ---------------------------------------------------------------------- *)

\* lines 127-134: the IS_RUNNING check and ARTI_STATE.get()
arti_stop_enter(t) ==
    /\ thr[t] = "idle"
    /\ IF ~IS_RUNNING \/ ~stateInit
       THEN /\ Return(t, "stop", -1)
            /\ cycle' = IF cycle = "stopped" THEN "stopped" ELSE "none"
            /\ UNCHANGED <<status, owner, lock, task, channels, sumCall>>
       ELSE /\ Goto(t, "stop_lock")
            /\ cycle' = "none"
            /\ UNCHANGED <<status, owner, lock, task, channels,
                           sumCall>>

\* take_and_send with the sender left in place (as_ref instead of take)
take_and_send_keep ==
    /\ shutdown_tx' = shutdown_tx
    /\ fired' = IF shutdown_tx # 0
                THEN [fired EXCEPT ![shutdown_tx] = @ + 1]
                ELSE fired

\* lines 142-144: guard.shutdown_tx.take() and tx.send(()), which consumes
\* the sender
take_and_send ==
    /\ shutdown_tx' = 0
    /\ fired' = IF shutdown_tx # 0
                THEN [fired EXCEPT ![shutdown_tx] = @ + 1]
                ELSE fired

\* lines 136-147: state.lock(), the shutdown signal, guard.client = None
arti_stop_signal(t) ==
    /\ thr[t] = "stop_lock"
    /\ lock = "free"
    /\ lock' = t
    /\ take_and_send
    /\ client' = 0
    /\ Goto(t, "stop_sleep")
    /\ cycle' = "none"
    /\ UNCHANGED <<status, stateInit, task, txDropped, sumCall>>

\* arti_stop_set_running without the store of line 152
arti_stop_set_running_nostore(t) ==
    /\ thr[t] = "stop_sleep"
    /\ IS_RUNNING' = IS_RUNNING
    /\ Goto(t, "stop_progress")
    /\ cycle' = "none"
    /\ UNCHANGED <<BOOTSTRAP_PROGRESS, BOOTSTRAP_SUMMARY, owner, lock,
                   task, channels, sumCall>>

\* lines 150-152: the 200 ms sleep has elapsed; IS_RUNNING.store(false)
arti_stop_set_running(t) ==
    /\ thr[t] = "stop_sleep"
    /\ IS_RUNNING' = FALSE
    /\ Goto(t, "stop_progress")
    /\ cycle' = "none"
    /\ UNCHANGED <<BOOTSTRAP_PROGRESS, BOOTSTRAP_SUMMARY, owner, lock, task, channels, sumCall>>

\* line 153: BOOTSTRAP_PROGRESS.store(0)
arti_stop_set_progress(t) ==
    /\ thr[t] = "stop_progress"
    /\ BOOTSTRAP_PROGRESS' = 0
    /\ Goto(t, "stop_summary")
    /\ cycle' = "none"
    /\ UNCHANGED <<IS_RUNNING, BOOTSTRAP_SUMMARY, owner, lock, task,
                   channels, sumCall>>

\* arti_stop_finish with the guard leaked instead of dropped
arti_stop_finish_keeplock(t) ==
    /\ thr[t] = "stop_summary"
    /\ lock = t
    /\ update_summary(Empty)
    /\ Return(t, "stop", 0)
    /\ cycle' = "stopped"
    /\ UNCHANGED <<IS_RUNNING, BOOTSTRAP_PROGRESS, owner, lock, task, channels,
                   sumCall>>

\* lines 154-157: update_summary(""), return 0 (guard dropped)
arti_stop_finish(t) ==
    /\ thr[t] = "stop_summary"
    /\ lock = t
    /\ update_summary(Empty)
    /\ lock' = "free"
    /\ Return(t, "stop", 0)
    /\ cycle' = "stopped"
    /\ UNCHANGED <<IS_RUNNING, BOOTSTRAP_PROGRESS, owner, task, channels,
                   sumCall>>

(* ---------------------------------------------------------------------- *)
(* arti_go_dormant, arti_wake                                              *)
(* ---------------------------------------------------------------------- *)

\* arti_go_dormant_enter without the IS_RUNNING check of lines 218-220
arti_go_dormant_enter_nocheck(t) ==
    /\ thr[t] = "idle"
    /\ Goto(t, "dormant_summary")
    /\ UNCHANGED <<status, owner, lock, task, channels, cycle, sumCall>>

\* lines 218-220
arti_go_dormant_enter(t) ==
    /\ thr[t] = "idle"
    /\ IF ~IS_RUNNING
       THEN Return(t, "go_dormant", -1)
       ELSE Goto(t, "dormant_summary")
    /\ UNCHANGED <<status, owner, lock, task, channels, cycle, sumCall>>

\* lines 222-223
arti_go_dormant_finish(t) ==
    /\ thr[t] = "dormant_summary"
    /\ update_summary(Dormant)
    /\ Return(t, "go_dormant", 0)
    /\ UNCHANGED <<IS_RUNNING, BOOTSTRAP_PROGRESS, owner, lock, task, channels,
                   cycle, sumCall>>

\* lines 233-235
arti_wake_enter(t) ==
    /\ thr[t] = "idle"
    /\ IF ~IS_RUNNING
       THEN Return(t, "wake", -1)
       ELSE Goto(t, "wake_summary")
    /\ UNCHANGED <<status, owner, lock, task, channels, cycle, sumCall>>

\* arti_wake_finish with a reset of the progress counter added
arti_wake_finish_reset(t) ==
    /\ thr[t] = "wake_summary"
    /\ update_summary(Active)
    /\ BOOTSTRAP_PROGRESS' = 0
    /\ Return(t, "wake", 0)
    /\ UNCHANGED <<IS_RUNNING, owner, lock, task, channels, cycle, sumCall>>

\* lines 236-237
arti_wake_finish(t) ==
    /\ thr[t] = "wake_summary"
    /\ update_summary(Active)
    /\ Return(t, "wake", 0)
    /\ UNCHANGED <<IS_RUNNING, BOOTSTRAP_PROGRESS, owner, lock, task, channels,
                   cycle, sumCall>>

(* ---------------------------------------------------------------------- *)
(* The Supervisor task: the closure of lines 99-111 around run_arti        *)
(* ---------------------------------------------------------------------- *)

\* the `?` of run_arti fails with error e: run_arti returns Err(e) and the
\* closure's Err arm runs update_summary(&format!("Error: {}", e)) (line 106)
Fail(i, e) ==
    /\ update_summary(ErrorSummary(e))
    /\ SetTask(i, "wrap_running")

\* lines 254-256: create_dir_all(&data_dir)?, update_summary("Configuring...")
run_arti_create_dir(i, ok) ==
    /\ task[i] = "start"
    /\ lastRet' = NoRet
    /\ IF ok
       THEN update_summary(Configuring) /\ SetTask(i, "config")
       ELSE Fail(i, "dir")
    /\ UNCHANGED <<IS_RUNNING, BOOTSTRAP_PROGRESS, owner, lock, thr, channels, cycle, sumCall>>

\* lines 259-267: TorClientConfigBuilder...build()?,
\* update_summary("Bootstrapping...")
run_arti_configure(i, ok) ==
    /\ task[i] = "config"
    /\ lastRet' = NoRet
    /\ IF ok
       THEN update_summary(Bootstrapping) /\ SetTask(i, "bootstrap")
       ELSE Fail(i, "config")
    /\ UNCHANGED <<IS_RUNNING, BOOTSTRAP_PROGRESS, owner, lock, thr, channels, cycle, sumCall>>

\* lines 270-271: TorClient::create_bootstrapped(config).await?
run_arti_bootstrap(i, ok) ==
    /\ task[i] = "bootstrap"
    /\ lastRet' = NoRet
    /\ IF ok
       THEN SetTask(i, "store_client") /\ UNCHANGED BOOTSTRAP_SUMMARY
       ELSE Fail(i, "bootstrap")
    /\ UNCHANGED <<IS_RUNNING, BOOTSTRAP_PROGRESS, owner, lock, thr, channels, cycle, sumCall>>

\* lines 274-278: state.lock() (a blocking std Mutex), guard.client =
\* Some(client.clone()), guard dropped at the end of the block
run_arti_store_client(i) ==
    /\ task[i] = "store_client"
    /\ lastRet' = NoRet
    /\ lock = "free"
    /\ client' = i
    /\ SetTask(i, "mark")
    /\ UNCHANGED <<status, stateInit, shutdown_tx, lock, thr, channels, cycle, sumCall>>

\* line 281: BOOTSTRAP_PROGRESS.store(100)
run_arti_mark_progress(i) ==
    /\ task[i] = "mark"
    /\ lastRet' = NoRet
    /\ BOOTSTRAP_PROGRESS' = 100
    /\ SetTask(i, "ready")
    /\ UNCHANGED <<IS_RUNNING, BOOTSTRAP_SUMMARY, owner, lock, thr, channels, cycle, sumCall>>

\* line 282: update_summary("Ready")
run_arti_ready(i) ==
    /\ task[i] = "ready"
    /\ lastRet' = NoRet
    /\ update_summary(Ready)
    /\ SetTask(i, "bind")
    /\ UNCHANGED <<IS_RUNNING, BOOTSTRAP_PROGRESS, owner, lock, thr, channels, cycle, sumCall>>

\* line 285: TcpListener::bind(socks_addr).await?
run_arti_bind(i, ok) ==
    /\ task[i] = "bind"
    /\ lastRet' = NoRet
    /\ IF ok
       THEN SetTask(i, "accept") /\ UNCHANGED BOOTSTRAP_SUMMARY
       ELSE Fail(i, "bind")
    /\ UNCHANGED <<IS_RUNNING, BOOTSTRAP_PROGRESS, owner, lock, thr, channels, cycle, sumCall>>

\* lines 291-305: the select! arm `accept_result = listener.accept()`: the
\* accepted connection is handed to a task of its own (or the accept error
\* is logged) and the loop goes round; no shared state is written
run_arti_accept(i) ==
    /\ task[i] = "accept"
    /\ lastRet' = NoRet
    /\ UNCHANGED <<status, owner, lock, thr, task, channels, cycle, sumCall>>

\* lines 306-314: the select! arm `_ = &mut shutdown_rx` (taken once the
\* receiver resolves), break, update_summary("Shutting down..."), Ok(())
run_arti_shutdown(i) ==
    /\ task[i] = "accept"
    /\ lastRet' = NoRet
    /\ RxResolved(i)
    /\ update_summary(ShuttingDown)
    /\ SetTask(i, "wrap_running")
    /\ UNCHANGED <<IS_RUNNING, BOOTSTRAP_PROGRESS, owner, lock, thr, channels, cycle, sumCall>>

\* line 109: IS_RUNNING.store(false)
wrapper_set_running(i) ==
    /\ task[i] = "wrap_running"
    /\ lastRet' = NoRet
    /\ IS_RUNNING' = FALSE
    /\ SetTask(i, "wrap_progress")
    /\ UNCHANGED <<BOOTSTRAP_PROGRESS, BOOTSTRAP_SUMMARY, owner, lock, thr,
                   channels, cycle, sumCall>>

\* line 110: BOOTSTRAP_PROGRESS.store(0); the task ends
wrapper_set_progress(i) ==
    /\ task[i] = "wrap_progress"
    /\ lastRet' = NoRet
    /\ BOOTSTRAP_PROGRESS' = 0
    /\ SetTask(i, "done")
    /\ UNCHANGED <<IS_RUNNING, BOOTSTRAP_SUMMARY, owner, lock, thr, channels, cycle, sumCall>>

(* ---------------------------------------------------------------------- *)
(* arti_bootstrap_summary                                                  *)
(* ---------------------------------------------------------------------- *)

Min(a, b) == IF a < b THEN a ELSE b

\* copy_len without the byte reserved for the terminator
copy_len_full(summary, len) == Min(Len(summary), len)

\* line 200: std::cmp::min(bytes.len(), (len - 1) as usize)
copy_len(summary, len) == Min(Len(summary), len - 1)

\* lines 202-205: copy_nonoverlapping of copy_len bytes, then the terminator;
\* the bytes of the buffer behind the terminator are not written
write_buf(buf, summary, n) ==
    [k \in 1..Len(buf) |->
        IF k <= n THEN summary[k] ELSE IF k = n + 1 THEN NUL ELSE buf[k]]

\* the caller's buffer before the call: len bytes the callee has not written
FreshBuf(isNull, len) ==
    IF isNull \/ len <= 0 THEN << >> ELSE [k \in 1..len |-> Filler]

\* lines 189-208: pub extern "C" fn arti_bootstrap_summary(buf, len)
arti_bootstrap_summary(isNull, len) ==
    /\ sumCall' =
         IF isNull \/ len <= 0
         THEN [called |-> TRUE, null |-> isNull, len |-> len,
               snap |-> BOOTSTRAP_SUMMARY, ret |-> -1,
               buf |-> FreshBuf(isNull, len)]
         ELSE LET summary == BOOTSTRAP_SUMMARY
                  n == copy_len(summary, len)
              IN [called |-> TRUE, null |-> isNull, len |-> len,
                  snap |-> summary, ret |-> n,
                  buf |-> write_buf(FreshBuf(isNull, len), summary, n)]
    /\ UNCHANGED <<status, owner, lock, thr, lastRet, task, channels, cycle>>

\* the summary texts update_summary is called with, each read by
\* arti_bootstrap_summary with every buffer of up to MaxCap bytes
InitSummary ==
    /\ BOOTSTRAP_SUMMARY \in Summaries
    /\ IS_RUNNING = FALSE
    /\ BOOTSTRAP_PROGRESS = 0
    /\ stateInit = FALSE
    /\ shutdown_tx = 0
    /\ client = 0
    /\ lock = "free"
    /\ thr = [t \in Threads |-> "idle"]
    /\ lastRet = NoRet
    /\ task = [i \in Tasks |-> "unspawned"]
    /\ fired = [i \in Tasks |-> 0]
    /\ txDropped = [i \in Tasks |-> FALSE]
    /\ cycle = "none"
    /\ sumCall = NoCall

NextSummary ==
    \E isNull \in BOOLEAN, len \in -1..MaxCap : arti_bootstrap_summary(isNull, len)

SpecSummary == InitSummary /\ [][NextSummary]_vars

(* ---------------------------------------------------------------------- *)
(* Specification                                                           *)
(* ---------------------------------------------------------------------- *)

\* the steps of the start and stop calls of a caller thread t
LifecycleNext(t) ==
    \/ \E pathOk \in BOOLEAN, rtOk \in BOOLEAN : arti_start_enter(t, pathOk, rtOk)
    \/ arti_start_spawn(t)
    \/ arti_start_set_running(t)
    \/ arti_start_set_progress(t)
    \/ arti_start_finish(t)
    \/ arti_stop_enter(t)
    \/ arti_stop_signal(t)
    \/ arti_stop_set_running(t)
    \/ arti_stop_set_progress(t)
    \/ arti_stop_finish(t)

\* the steps of the go_dormant and wake calls of a caller thread t
HintNext(t) ==
    \/ arti_go_dormant_enter(t)
    \/ arti_go_dormant_finish(t)
    \/ arti_wake_enter(t)
    \/ arti_wake_finish(t)

\* the steps of Supervisor task i
TaskNext(i) ==
    \/ \E ok \in BOOLEAN : run_arti_create_dir(i, ok)
    \/ \E ok \in BOOLEAN : run_arti_configure(i, ok)
    \/ \E ok \in BOOLEAN : run_arti_bootstrap(i, ok)
    \/ run_arti_store_client(i)
    \/ run_arti_mark_progress(i)
    \/ run_arti_ready(i)
    \/ \E ok \in BOOLEAN : run_arti_bind(i, ok)
    \/ run_arti_accept(i)
    \/ run_arti_shutdown(i)
    \/ wrapper_set_running(i)
    \/ wrapper_set_progress(i)

\* the host calls the library from any of its threads
Next ==
    \/ \E t \in Threads : LifecycleNext(t)
    \/ \E t \in Threads : HintNext(t)
    \/ \E i \in Tasks : TaskNext(i)

Spec == Init /\ [][Next]_vars

\* the host calls the library from one thread only, one call after the other
NextSeq ==
    \/ LifecycleNext("t1")
    \/ HintNext("t1")
    \/ \E i \in Tasks : TaskNext(i)

SpecSeq == Init /\ [][NextSeq]_vars

\* the host calls start and stop from any of its threads, and never
\* go_dormant or wake (which write the summary text only, and nothing that
\* start, stop or a Supervisor task reads)
NextLifecycle ==
    \/ \E t \in Threads : LifecycleNext(t)
    \/ \E i \in Tasks : TaskNext(i)

SpecLifecycle == Init /\ [][NextLifecycle]_vars

\* the steps of a call of thread t after its first: the thread runs the
\* body of the function, which waits for nothing but the ARTI_STATE mutex
\* and the end of the 200 ms sleep
CallProgress(t) ==
    \/ arti_start_spawn(t)
    \/ arti_start_set_running(t)
    \/ arti_start_set_progress(t)
    \/ arti_start_finish(t)
    \/ arti_stop_signal(t)
    \/ arti_stop_set_running(t)
    \/ arti_stop_set_progress(t)
    \/ arti_stop_finish(t)
    \/ arti_go_dormant_finish(t)
    \/ arti_wake_finish(t)

\* the steps of Supervisor task i other than another round of the accept
\* loop: the runtime polls a spawned task whenever it can make progress,
\* the awaited directory, bootstrap and bind operations complete, and
\* select! (line 290) takes the shutdown arm once the receiver has resolved
TaskProgress(i) ==
    \/ \E ok \in BOOLEAN : run_arti_create_dir(i, ok)
    \/ \E ok \in BOOLEAN : run_arti_configure(i, ok)
    \/ \E ok \in BOOLEAN : run_arti_bootstrap(i, ok)
    \/ run_arti_store_client(i)
    \/ run_arti_mark_progress(i)
    \/ run_arti_ready(i)
    \/ \E ok \in BOOLEAN : run_arti_bind(i, ok)
    \/ run_arti_shutdown(i)
    \/ wrapper_set_running(i)
    \/ wrapper_set_progress(i)

\* a call that has begun runs to its return and a spawned task is polled;
\* the host is free never to call again
Fairness ==
    /\ \A t \in Threads : WF_vars(CallProgress(t))
    /\ \A i \in Tasks : WF_vars(TaskProgress(i))

\* start and stop called from any thread, under fair scheduling
SpecFair == Init /\ [][NextLifecycle]_vars /\ Fairness

\* every call made from any thread, under fair scheduling
SpecFairAll == Init /\ [][Next]_vars /\ Fairness

(* ---------------------------------------------------------------------- *)
(* Properties                                                              *)
(* ---------------------------------------------------------------------- *)

TypeOK ==
    /\ IS_RUNNING \in BOOLEAN
    /\ BOOTSTRAP_PROGRESS \in {0, 100}
    /\ BOOTSTRAP_SUMMARY \in Summaries
    /\ shutdown_tx \in 0..MaxTasks
    /\ client \in 0..MaxTasks
    /\ lock \in Threads \cup {"free"}

\* what the Controller and the Supervisors share, apart from the positions
\* of the calls in progress
shared == <<status, owner, lock, task, channels>>

\* this step is a call of arti_start (its lines 63-82)
StartCalled ==
    \E t \in Threads :
       /\ thr[t] = "idle"
       /\ \/ thr'[t] = "start_lock"
          \/ thr' = thr /\ lastRet'.op = "start"

\* this step is a call of arti_start that passes the checks of lines 63-82
StartProceeds == \E t \in Threads : thr[t] = "idle" /\ thr'[t] = "start_lock"

\* this step is a call of arti_stop (its lines 127-134)
StopCalled ==
    \E t \in Threads :
       /\ thr[t] = "idle"
       /\ \/ thr'[t] = "stop_lock"
          \/ thr' = thr /\ lastRet'.op = "stop"

\* this step is a call of arti_stop that passes the checks of lines 127-134
StopProceeds == \E t \in Threads : thr[t] = "idle" /\ thr'[t] = "stop_lock"

\* the call of this step returns code at once and changes nothing
Rejected(op, code) ==
    /\ thr' = thr
    /\ lastRet' = [op |-> op, code |-> code]
    /\ UNCHANGED shared

\* C1: at most one Supervisor task (spawned, not yet finished) is alive in
\* every reachable state, for any interleaving of start, stop and task steps.
C1_SingleSupervisor == Cardinality(Alive) <= 1

\* C2 (as claimed): a start call made while the running flag is true returns
\* -1 and leaves the shared state untouched, and a start call that follows a
\* start that returned 0, with no stop in between, does not get past the
\* already-running check.
C2_StartTwice ==
    [][ /\ (StartCalled /\ IS_RUNNING) => Rejected("start", -1)
        /\ cycle = "started" => ~StartProceeds ]_vars

\* C2 (amended): a start call made while the running flag is true returns -1
\* and leaves the shared state untouched; a start call that follows a start
\* that returned 0, with no stop in between, gets past the already-running
\* check only if a Supervisor task has run its IS_RUNNING.store(false).
C2_StartWhileRunning ==
    [][ /\ (StartCalled /\ IS_RUNNING) => Rejected("start", -1)
        /\ (cycle = "started" /\ StartProceeds) =>
              \E i \in Tasks : task[i] \in {"wrap_progress", "done"} ]_vars

\* a start that returned 0 was followed, with no stop, by a start that
\* returned -1
C2_Witness ==
    /\ cycle = "started"
    /\ IS_RUNNING
    /\ lastRet = [op |-> "start", code |-> -1]

\* C3: whenever running is false, progress is 0 and the summary is empty.
C3_StoppedIsClean ==
    ~IS_RUNNING => (BOOTSTRAP_PROGRESS = 0 /\ BOOTSTRAP_SUMMARY = Empty)

\* C4 (as claimed): after a start that returned 0, a stop call gets past the
\* not-running check (and so returns 0), and a stop call that follows a stop
\* that returned 0, with no start in between, returns -1 and changes nothing.
C4_StopTwice ==
    [][ /\ (cycle = "started" /\ StopCalled) => StopProceeds
        /\ (cycle = "stopped" /\ StopCalled) => Rejected("stop", -1) ]_vars

\* C4 (amended): after a start that returned 0, a stop call gets past the
\* not-running check if the running flag is still true; a stop call that
\* follows a stop that returned 0, with no start in between, returns -1 and
\* changes nothing.
C4_StopAfterStop ==
    [][ /\ (cycle = "started" /\ StopCalled /\ IS_RUNNING) => StopProceeds
        /\ (cycle = "stopped" /\ StopCalled) => Rejected("stop", -1) ]_vars

\* a stop that returned 0 was followed, with no start, by a stop that
\* returned -1
C4_Witness ==
    /\ cycle = "stopped"
    /\ lastRet = [op |-> "stop", code |-> -1]
    /\ ntasks > 0

\* C5: no channel is sent on more than once; the stop step that signals moves
\* the sender out of the RuntimeOwner and sends on it exactly when one was
\* stored; and a stop call that got past the not-running check returns 0.
C5_FiredAtMostOnce ==
    /\ [](\A i \in Tasks : fired[i] <= 1)
    /\ [][ \A t \in Threads :
             /\ (thr[t] = "stop_lock" /\ thr'[t] # "stop_lock") =>
                  /\ thr'[t] = "stop_sleep"
                  /\ shutdown_tx' = 0
                  /\ \A i \in Tasks :
                       fired'[i] = IF i = shutdown_tx THEN fired[i] + 1
                                   ELSE fired[i]
             /\ (thr[t] \in {"stop_lock", "stop_sleep", "stop_progress",
                             "stop_summary"} /\ thr'[t] = "idle") =>
                  lastRet' = [op |-> "stop", code |-> 0] ]_vars

\* two stop calls overlap: one has sent on the channel of the newest task
\* and is about to return, the other waits for the lock and will find no
\* sender
C5_Witness ==
    \E t, u \in Threads :
       /\ thr[t] = "stop_summary"
       /\ thr[u] = "stop_lock"
       /\ shutdown_tx = 0
       /\ ntasks > 0 /\ fired[ntasks] = 1

\* the Supervisor task of the current run (the one spawned last) has not
\* ended: it is neither in the closure's last two stores nor finished
CurrentAlive ==
    ntasks > 0 /\ task[ntasks] \notin {"wrap_running", "wrap_progress", "done"}

\* C6: the progress counter is always 0 or 100, and within one start/stop
\* cycle (after a start returned 0, before the next stop or start call) a
\* progress of 100 stays 100 in every step that is not a step of the cycle's
\* own Supervisor task, whatever the tasks of earlier cycles do.
C6_ProgressMonotone ==
    /\ [](BOOTSTRAP_PROGRESS \in {0, 100})
    /\ [][ ( /\ cycle = "started" /\ cycle' = "started"
             /\ BOOTSTRAP_PROGRESS = 100
             /\ task'[ntasks] = task[ntasks] )
           => BOOTSTRAP_PROGRESS' = 100 ]_vars

\* C7: after start, stop, start (the first run was signalled by the stop, the
\* second start returned 0), once the second run's Supervisor is in its
\* accept loop with running true and progress 100, running stays true and
\* progress stays 100 until the next stop or start call.
C7_RestartStaysReady ==
    [][ ( /\ cycle = "started" /\ cycle' = "started"
          /\ ntasks = 2 /\ fired[1] = 1
          /\ task[2] = "accept" /\ task'[2] = "accept"
          /\ IS_RUNNING /\ BOOTSTRAP_PROGRESS = 100 )
        => (IS_RUNNING' /\ BOOTSTRAP_PROGRESS' = 100) ]_vars

\* C8: from the return of a start that returned 0 until the next stop call,
\* as long as the run's Supervisor task has not ended, is_running returns 1.
C8_RunningThroughout ==
    (cycle = "started" /\ CurrentAlive) => arti_is_running = 1

\* C9: after a stop that returned 0 and until the next start call,
\* is_running returns 0 and bootstrap_progress returns 0.
C9_StoppedReadsZero ==
    cycle = "stopped" => (arti_is_running = 0 /\ arti_bootstrap_progress = 0)

\* C10: a call with a non-null buffer of capacity n >= 1 returns the smaller
\* of the summary's length and n-1, has written that many leading bytes of
\* the summary and one terminator behind them and nothing else; a call with
\* a null buffer or n <= 0 returns -1 and has written nothing; summary
\* "Ready" with n = 4 gives "Rea", terminator, and 3.
C10_SummaryCopy ==
    sumCall.called =>
      LET n == sumCall.len
          r == sumCall.ret
          b == sumCall.buf
          text == sumCall.snap
      IN IF sumCall.null \/ n <= 0
         THEN r = -1 /\ b = FreshBuf(sumCall.null, n)
         ELSE /\ r >= 0 /\ r <= n - 1 /\ r <= Len(text)
              /\ r = n - 1 \/ r = Len(text)
              /\ Len(b) = n
              /\ \A k \in 1..r : b[k] = text[k]
              /\ b[r + 1] = NUL
              /\ \A k \in (r + 2)..n : b[k] = Filler
              /\ (text = Ready /\ n = 4) => (b = <<"R", "e", "a", NUL>> /\ r = 3)

\* the summary "Ready" was read into a buffer of 4 bytes
C10_Witness ==
    /\ sumCall.called
    /\ ~sumCall.null
    /\ sumCall.len = 4
    /\ sumCall.snap = Ready
    /\ sumCall.ret = 3

\* C11: in the state in which a start call has returned 0, the sender of the
\* channel made by that call is stored in the RuntimeOwner, the task spawned
\* last holds its receiver (nothing was sent on it and it was not dropped),
\* and the status is running = true, progress = 0, summary = "Starting...".
C11_StartPostcondition ==
    lastRet = [op |-> "start", code |-> 0] =>
       /\ shutdown_tx # 0
       /\ shutdown_tx = ntasks
       /\ ~RxResolved(shutdown_tx)
       /\ IS_RUNNING
       /\ BOOTSTRAP_PROGRESS = 0
       /\ BOOTSTRAP_SUMMARY = Starting

\* this step is a call of arti_go_dormant (its lines 218-220)
DormantCalled ==
    \E t \in Threads :
       /\ thr[t] = "idle"
       /\ \/ thr'[t] = "dormant_summary"
          \/ thr' = thr /\ lastRet'.op = "go_dormant"

\* this step is a call of arti_wake (its lines 233-235)
WakeCalled ==
    \E t \in Threads :
       /\ thr[t] = "idle"
       /\ \/ thr'[t] = "wake_summary"
          \/ thr' = thr /\ lastRet'.op = "wake"

\* C12: a stop, go_dormant or wake call made while the running flag is false
\* returns -1 in that step and leaves the status, the stored sender, the
\* stored client handle, the lock, the Supervisor tasks and the channels (no
\* signal is sent) as they were.
C12_NotRunningRejected ==
    [][ /\ (StopCalled /\ ~IS_RUNNING) => Rejected("stop", -1)
        /\ (DormantCalled /\ ~IS_RUNNING) => Rejected("go_dormant", -1)
        /\ (WakeCalled /\ ~IS_RUNNING) => Rejected("wake", -1) ]_vars

\* wake was rejected while the running flag was false (a Supervisor task had
\* failed) although a sender is stored and a task has not yet ended
C12_Witness ==
    /\ lastRet = [op |-> "wake", code |-> -1]
    /\ ~IS_RUNNING
    /\ shutdown_tx # 0
    /\ Alive # {}

\* the step of thread t from position pc back to idle returns 0 from op with
\* the summary set to text and nothing else of the shared state changed
HintDone(t, pc, op, text) ==
    (thr[t] = pc /\ thr'[t] # pc) =>
       /\ lastRet' = [op |-> op, code |-> 0]
       /\ BOOTSTRAP_SUMMARY' = text
       /\ UNCHANGED <<IS_RUNNING, BOOTSTRAP_PROGRESS, owner, lock, task, channels>>

\* C13: a go_dormant or wake call made while the running flag is true is not
\* rejected; its first step changes nothing and its last step returns 0 and
\* sets the summary to "Dormant" / "Active"; neither step changes the running
\* flag, the progress, the stored sender, the stored client handle, the lock,
\* a channel or the position of a Supervisor task, so a task in the accept
\* loop is still in the accept loop.
C13_HintsWriteSummaryOnly ==
    [][ /\ ((DormantCalled \/ WakeCalled) /\ IS_RUNNING) =>
              (thr' # thr /\ lastRet' = NoRet /\ UNCHANGED shared)
        /\ \A t \in Threads :
              /\ HintDone(t, "dormant_summary", "go_dormant", Dormant)
              /\ HintDone(t, "wake_summary", "wake", Active)
        /\ (\E t \in Threads : thr[t] \in {"dormant_summary", "wake_summary"}
                                /\ thr'[t] = "idle") =>
              \A i \in Tasks : task[i] = "accept" => task'[i] = "accept" ]_vars

\* go_dormant has returned 0 while the run was ready: the Supervisor is in
\* the accept loop, the sender and the client handle are stored, progress 100
C13_Witness ==
    /\ lastRet = [op |-> "go_dormant", code |-> 0]
    /\ BOOTSTRAP_SUMMARY = Dormant
    /\ IS_RUNNING /\ BOOTSTRAP_PROGRESS = 100
    /\ shutdown_tx # 0 /\ client = shutdown_tx
    /\ task[shutdown_tx] = "accept"

\* C14: once the Supervisor task of a run has ended on a fatal error (it is
\* done and its receiver never resolved), with the start that spawned it
\* returned 0 and no start or stop call made since, the running flag is
\* false, the progress is 0 and the summary holds the error text (or the
\* text of a later go_dormant / wake), however early the task failed.
C14_FatalErrorStops ==
    ( /\ cycle = "started"
      /\ ntasks > 0
      /\ task[ntasks] = "done"
      /\ ~RxResolved(ntasks) )
    => /\ ~IS_RUNNING
       /\ BOOTSTRAP_PROGRESS = 0
       /\ BOOTSTRAP_SUMMARY \in
             {ErrorSummary(e) : e \in ErrKinds} \cup {Dormant, Active}

\* C15: under fair scheduling, every Supervisor task that is alive in the
\* state in which a stop call has returned 0 eventually ends, in whatever
\* phase it was when the signal was sent.
C15_StoppedTasksEnd ==
    \A i \in Tasks :
       (lastRet = [op |-> "stop", code |-> 0] /\ i \in Alive) ~> (task[i] = "done")

\* a stop call has returned 0 having sent the signal to a Supervisor that is
\* still configuring or bootstrapping
C15_Witness ==
    /\ lastRet = [op |-> "stop", code |-> 0]
    /\ \E i \in Tasks : task[i] \in {"config", "bootstrap"} /\ fired[i] = 1

\* C16: the stored client handle is None after a stop has returned 0, until
\* the next start call, and after a start has returned 0 as long as the
\* Supervisor task of that run has not got past its bootstrap.
C16_ClientNoneOutsideRun ==
    /\ cycle = "stopped" => client = 0
    /\ ( /\ cycle = "started"
         /\ ntasks > 0
         /\ task[ntasks] \in {"start", "config", "bootstrap", "store_client"} )
       => client = 0

\* the positions of a start or stop call after its first status write (the
\* store to IS_RUNNING) and before its last (update_summary)
StatusWriting == {"start_progress", "start_summary", "stop_progress", "stop_summary"}

\* C17: while a start or stop call is between its first and its last status
\* write, no step of a Supervisor task writes a status field.
C17_SingleStatusWriter ==
    [][ ( /\ \E t \in Threads : thr[t] \in StatusWriting
          /\ \E i \in Tasks : task'[i] # task[i] )
        => UNCHANGED status ]_vars

\* C18: no thread holds the ARTI_STATE mutex while it sleeps out stop's
\* grace period, and no Supervisor task that is about to store its client
\* handle finds the mutex held by such a thread.
C18_LockNotHeldAcrossSleep ==
    \A t \in Threads :
       thr[t] = "stop_sleep" =>
          /\ lock # t
          /\ \A i \in Tasks : task[i] = "store_client" => lock = "free"

\* C19: a stored sender is always the one of the task spawned last; every
\* task that has not ended either has its sender stored or has a resolved
\* receiver (sent on, or sender dropped); a start step that stores a sender
\* over a stored one drops the old one; a task in the accept loop whose
\* sender was dropped can take the shutdown arm; and a stop step that sends
\* sends to the task spawned last.
C19_NewestHoldsReceiver ==
    /\ [](shutdown_tx # 0 => shutdown_tx = ntasks)
    /\ [](\A i \in Alive : shutdown_tx = i \/ RxResolved(i))
    /\ [](\A i \in Tasks : (task[i] = "accept" /\ txDropped[i])
                               => ENABLED run_arti_shutdown(i))
    /\ [][ /\ (shutdown_tx # 0 /\ shutdown_tx' \notin {0, shutdown_tx})
               => txDropped'[shutdown_tx]
           /\ \A i \in Tasks : fired'[i] # fired[i] => i = ntasks ]_vars

\* two runs were started without a stop in between: the older Supervisor is
\* in its accept loop with its sender dropped unsent by the second start,
\* whose own sender is stored
C19_Witness ==
    /\ ntasks = 2
    /\ task[1] = "accept" /\ txDropped[1] /\ fired[1] = 0
    /\ shutdown_tx = 2 /\ task[2] \notin {"unspawned", "done"}

\* the positions at which a call holds the ARTI_STATE guard; at none of them
\* does its next step wait for a lock
HoldsGuard == {"start_running", "start_progress", "start_summary",
               "stop_sleep", "stop_progress", "stop_summary"}

\* C20: the ARTI_STATE mutex is held exactly by a call at a position where it
\* waits for no lock; the step that takes the mutex, and the Supervisor step
\* that stores the client handle under it, do not enter the summary's
\* critical section (the summary is written under the mutex only by a call
\* that took the mutex first); and under fair scheduling every call that
\* has begun returns.
C20_CallsReturn ==
    /\ [](\A t \in Threads : lock = t <=> thr[t] \in HoldsGuard)
    /\ [][ /\ (lock = "free" /\ lock' # "free") => UNCHANGED BOOTSTRAP_SUMMARY
           /\ client' \notin {0, client} => UNCHANGED BOOTSTRAP_SUMMARY ]_vars
    /\ \A t \in Threads : (thr[t] # "idle") ~> (thr[t] = "idle")

\* one thread sleeps in stop holding the mutex while the other thread's call
\* and a Supervisor task that has finished its bootstrap both wait for it
C20_Witness ==
    \E t, u \in Threads :
       /\ thr[t] = "stop_sleep" /\ lock = t
       /\ thr[u] \in {"start_lock", "stop_lock"}
       /\ \E i \in Tasks : task[i] = "store_client"

====
